---- MODULE Spec2Model ----
(***************************************************************************)
(* DORA metrics from build timelines (src/config.py).                      *)
(*                                                                         *)
(* Specifications:                                                         *)
(*   Spec          main() from the point where list_builds has returned    *)
(*                 (line 250) to the four outputs, one action per external *)
(*                 call and the code that follows it;                      *)
(*   SpecClassify  the classification loop of main() on one build;         *)
(*   SpecLead      main() from the end of the classification loop, for     *)
(*                 runs that found no failure;                             *)
(*   SpecMetrics   main() from the end of the lead-time loop, for runs     *)
(*                 that resolved no commit time;                           *)
(*   SpecPages     ADO.list_builds, one action per iteration of its loop.  *)
(* The last four start main() (or list_builds) in states it reaches and    *)
(* take the same actions as Spec.                                          *)
(*                                                                         *)
(* Representation.  A Python string is a sequence of one-character         *)
(* strings.  An optional value (None / absent key) is the empty sequence   *)
(* <<>>, a present one the sequence of its parts; None and "" are both     *)
(* falsy in the code, so one representation serves both.  A timestamp      *)
(* string is <<local, off>>: the wall-clock reading in ticks and the UTC   *)
(* offset it carries ("Z" is offset 0).  A datetime is an integer number   *)
(* of ticks since the epoch, TicksPerSec ticks to the second.              *)
(***************************************************************************)
EXTENDS Integers, Sequences, FiniteSets, TLC

\* ---------------------------------------------------------------- bounds
MaxBuilds   == 2      \* builds returned by list_builds
MaxRecs     == 2      \* records in one build's timeline
MaxTick     == 2      \* finish times range over MaxTick+1 consecutive ticks
TicksPerSec == 2      \* resolution of the clock (the code's is 10^6)
MaxPages    == 3      \* pages the paged server holds
MaxPageSize == 2      \* builds in one page

\* ------------------------------------------------------ program constants
SecondsPerDay == 86400
TicksPerDay   == SecondsPerDay * TicksPerSec
TicksPerHour  == 3600 * TicksPerSec

\* ---------------------------------------------------------------- strings
UpperAlpha == <<"A","B","C","D","E","F","G","H","I","J","K","L","M",
                "N","O","P","Q","R","S","T","U","V","W","X","Y","Z">>
LowerAlpha == <<"a","b","c","d","e","f","g","h","i","j","k","l","m",
                "n","o","p","q","r","s","t","u","v","w","x","y","z">>

\* the characters the inputs are written in
Chars ==
    { UpperAlpha[k] : k \in 1..26 } \cup { LowerAlpha[k] : k \in 1..26 } \cup {" ", "-"}

\* str.lower() on one character, tabulated over Chars
LowerTable ==
    [c \in Chars |->
        IF \E k \in 1..26 : UpperAlpha[k] = c
        THEN LowerAlpha[CHOOSE k \in 1..26 : UpperAlpha[k] = c]
        ELSE c]

\* str.lower()
lower(s) == [k \in 1..Len(s) |-> LowerTable[s[k]]]

\* Python's `sub in s` on strings
contains(sub, s) ==
    \E k \in 0..(Len(s) - Len(sub)) : SubSeq(s, k + 1, k + Len(sub)) = sub

Succeeded == <<"s","u","c","c","e","e","d","e","d">>
Failed    == <<"f","a","i","l","e","d">>
SwapSub     == <<"s","w","a","p">>
ValidateSub == <<"v","a","l","i","d","a","t","e">>
RollbackSub == <<"r","o","l","l","b","a","c","k">>

\* ------------------------------------------------------------ time helpers
\* utc(dt_str): None for a falsy string, else the instant in UTC
utc(dt_str) ==
    IF dt_str = <<>> THEN <<>> ELSE <<dt_str[1] - dt_str[2]>>

\* day_key(dt_utc): the calendar date, as the day number since the epoch
\* (YYYY-MM-DD is fixed width, so the strings order as the day numbers do)
day_key(dt_utc) == dt_utc \div TicksPerDay

\* ----------------------------------------------------- the inputs' ranges
Times == { TicksPerDay - 1 + k : k \in 0..MaxTick }

\* finishTime strings as the server writes them: UTC with a "Z" suffix
FinishStamps == { <<t, 0>> : t \in Times }

\* job names: one names the swap only, one the validation only, one is a
\* rollback job named after the swap it undoes, so that it matches both
\* "rollback" and "swap"
JobNames == { <<"S","w","a","p"," ","S","l","o","t","s">>,
              <<"V","A","L","I","D","A","T","E">>,
              <<"R","o","l","l","b","a","c","k"," ","S","w","a","p">> }

ResultStrings == { <<>>,
                   <<"S","u","c","c","e","e","d","e","d">>,
                   <<"F","A","I","L","E","D">> }

StageRecord ==
    [type |-> "Stage", name |-> <<"S","w","a","p">>,
     result |-> Succeeded, finishTime |-> <<TicksPerDay, 0>>]

Records ==
    [type : {"Job"}, name : JobNames, result : ResultStrings,
     finishTime : FinishStamps \cup {<<>>}] \cup {StageRecord}

Timelines == UNION { [1..n -> Records] : n \in 0..MaxRecs }

\* ------------------------------------------------------------------ state
VARIABLES
    pc,               \* where main() is
    builds,           \* the list list_builds returned (build ids)
    i,                \* index of the build the current for-loop is at
    recs,             \* the records of the timeline just fetched
    deployments,      \* list of [buildId, when]
    failures,         \* list of [buildId, when]
    raised,           \* the exception that ended the run, <<>> if none
    gh_repo_override, \* args.github_repo: TRUE when an override is given
    daily,            \* date -> sorted list of deploy times
    cfr_pct,          \* <<numerator, denominator>> of the rate in percent
    lead_rows,        \* the lead-time rows, in the order appended
    out_daily,        \* deployment_frequency.csv
    out_lead,         \* lead_time_for_changes.csv
    out_cfr,          \* change_failure_rate.csv (a list of one row)
    out_mttr,         \* failed_deployment_recovery_time.csv
    srv,              \* list_builds: the pages the server holds
    params,           \* list_builds: params["continuationToken"], <<>> if unset
    cont,             \* list_builds: cont
    lb_builds,        \* list_builds: builds
    lb_pc,            \* list_builds: "loop" or "returned"
    requests          \* the continuationToken of each request the server got

main_vars == <<pc, builds, i, recs, deployments, failures, raised,
               gh_repo_override, daily, cfr_pct, lead_rows,
               out_daily, out_lead, out_cfr, out_mttr>>

page_vars == <<srv, params, cont, lb_builds, lb_pc, requests>>

vars == <<main_vars, page_vars>>

\* ------------------------------------------------------ timeline analysis
\* mutant: the last matching record instead of the first
last_match(rs, kind, sub) ==
    LET hits == { k \in 1..Len(rs) :
                    rs[k].type = kind /\ contains(lower(sub), lower(rs[k].name)) }
    IN  IF hits = {} THEN <<>>
        ELSE <<rs[CHOOSE k \in hits : \A m \in hits : m <= k]>>

\* next((r for r in recs if r.type == kind and sub in r.name.lower()), None)
first_match(rs, kind, sub) ==
    LET hits == { k \in 1..Len(rs) :
                    rs[k].type = kind /\ contains(lower(sub), lower(rs[k].name)) }
    IN  IF hits = {} THEN <<>>
        ELSE <<rs[CHOOSE k \in hits : \A m \in hits : k <= m]>>

has_job(rs, sub) == first_match(rs, "Job", sub)

has_stage(rs, name_sub) == first_match(rs, "Stage", name_sub)

\* `job and (job.get("result") or "").lower() == want`; an absent result is
\* already the empty string in this representation
result_is(job, want) ==
    job # <<>> /\ lower(job[1].result) = want

\* the deployment of lines 271-274, <<>> if none is appended
deployment_of(bid, rs) ==
    LET swap == has_job(rs, SwapSub)
    IN  IF result_is(swap, Succeeded)
        THEN LET dep_time == utc(swap[1].finishTime)
             IN  IF dep_time # <<>>
                 THEN <<[buildId |-> bid, when |-> dep_time[1]]>>
                 ELSE <<>>
        ELSE <<>>

\* mutant: rollback is looked at before validate
fail_time_rollback_first(rs) ==
    LET validate_swap == has_job(rs, <<"v","a","l","i","d","a","t","e">>)
        rollback      == has_job(rs, <<"r","o","l","l","b","a","c","k">>)
    IN  IF rollback # <<>> /\ lower(rollback[1].result) = <<"s","u","c","c","e","e","d","e","d">>
        THEN <<utc(rollback[1].finishTime)>>
        ELSE IF validate_swap # <<>> /\ lower(validate_swap[1].result) = <<"f","a","i","l","e","d">>
             THEN <<utc(validate_swap[1].finishTime)>>
             ELSE <<>>

\* failed_change, fail_t of lines 285-289, as <<fail_t>> when failed_change
\* is set (fail_t itself optional), <<>> when it is not
fail_time(rs) ==
    LET validate_swap == has_job(rs, ValidateSub)
        rollback      == has_job(rs, RollbackSub)
    IN  IF result_is(validate_swap, Failed)
        THEN <<utc(validate_swap[1].finishTime)>>
        ELSE IF result_is(rollback, Succeeded)
             THEN <<utc(rollback[1].finishTime)>>
             ELSE <<>>

\* the failure of lines 284-291, <<>> if none is appended; the block sits
\* under `if swap succeeded`, beside (not under) `if dep_time`
failure_of(bid, rs) ==
    LET swap == has_job(rs, SwapSub)
    IN  IF result_is(swap, Succeeded)
        THEN LET ft == fail_time(rs)
             IN  IF ft # <<>> /\ ft[1] # <<>>
                 THEN <<[buildId |-> bid, when |-> ft[1][1]]>>
                 ELSE <<>>
        ELSE <<>>


\* ------------------------------------------------------- sorting, strings
\* Python's < on strings, the characters given by their code points
StrLt(a, b) ==
    \/ Len(a) < Len(b) /\ SubSeq(b, 1, Len(a)) = a
    \/ \E k \in 1..Len(a) :
          /\ k <= Len(b)
          /\ SubSeq(a, 1, k - 1) = SubSeq(b, 1, k - 1)
          /\ a[k] < b[k]

\* sorted(s, key=...): stable; keys[k] is the key of s[k], a string or, for
\* a number n, the one-element sequence <<n>>
StableSort(s, keys) ==
    LET before(j, k) ==
            StrLt(keys[j], keys[k]) \/ (~StrLt(keys[k], keys[j]) /\ j < k)
        rank(k) == 1 + Cardinality({ j \in 1..Len(s) : before(j, k) })
    IN  [p \in 1..Len(s) |-> s[CHOOSE k \in 1..Len(s) : rank(k) = p]]

\* fmtiso(dt): "YYYY-MM-DDTHH:MM:SS[.ffffff]+00:00".  The date, the time of
\* day and the fraction are fixed-width decimal fields, each given here as
\* the number it spells; isoformat() leaves the fraction out when it is 0,
\* so "+" (43) or "." (46) follows the seconds.
fmtiso(dt) ==
    LET date == dt \div TicksPerDay
        secs == (dt % TicksPerDay) \div TicksPerSec
        frac == dt % TicksPerSec
    IN  IF frac = 0 THEN <<date, secs, 43>> ELSE <<date, secs, 46, frac, 43>>

\* mutant: floor division
floor_total_seconds(delta) == delta \div TicksPerSec

\* int(timedelta.total_seconds()): truncation toward zero
int_total_seconds(delta) ==
    IF delta >= 0 THEN delta \div TicksPerSec ELSE -((-delta) \div TicksPerSec)

\* round(num / den, 0) as Python rounds: to nearest, ties to even
round_half_even(num, den) ==
    LET q == num \div den
        r == num % den
    IN  IF 2 * r < den THEN q
        ELSE IF 2 * r > den THEN q + 1
        ELSE IF q % 2 = 0 THEN q ELSE q + 1

\* --------------------------------------------------------- metrics engine
\* mutant: the day's list is replaced, not extended
setdefault_assign(d, k, when) ==
    [x \in DOMAIN d \cup {k} |-> IF x = k THEN <<when>> ELSE d[x]]

\* daily.setdefault(k, []).append(when)
setdefault_append(d, k, when) ==
    [x \in DOMAIN d \cup {k} |->
        IF x = k THEN (IF k \in DOMAIN d THEN Append(d[k], when) ELSE <<when>>)
        ELSE d[x]]

\* lines 294-297 over the first n deployments
RECURSIVE group_daily(_, _)
group_daily(deps, n) ==
    IF n = 0 THEN [x \in {} |-> <<>>]
    ELSE setdefault_append(group_daily(deps, n - 1),
                           day_key(deps[n].when), deps[n].when)

\* sorted(times): each time is its own key
SelfKeys(times) == [k \in 1..Len(times) |-> <<times[k]>>]

\* lines 294-300
daily_of(deps) ==
    LET d == group_daily(deps, Len(deps))
    IN  [k \in DOMAIN d |-> StableSort(d[k], SelfKeys(d[k]))]

\* line 303, as the fraction it is before rounding
cfr_of(fails, deps) ==
    IF deps # <<>> THEN <<Len(fails) * 100, Len(deps)>> ELSE <<0, 1>>

\* sorted(d.keys()): the keys in ascending order
sorted_keys(d) ==
    [p \in 1..Cardinality(DOMAIN d) |->
        CHOOSE k \in DOMAIN d : Cardinality({ m \in DOMAIN d : m < k }) = p - 1]

\* lines 364-376: one row per day, chronological
daily_rows(d) ==
    LET days == sorted_keys(d)
    IN  [p \in 1..Len(days) |->
            [date |-> days[p],
             deployments |-> Len(d[days[p]]),
             firstDeployAtUtc |-> fmtiso(d[days[p]][1]),
             lastDeployAtUtc |-> fmtiso(d[days[p]][Len(d[days[p]])])]]

\* key=lambda x: x["when"]
WhenKeys(rows) == [k \in 1..Len(rows) |-> <<rows[k].when>>]

\* mutant: the last later success instead of the first
last_success(successes_sorted, f) ==
    LET later == { k \in 1..Len(successes_sorted) :
                     successes_sorted[k].when > f.when }
    IN  IF later = {} THEN <<>>
        ELSE <<successes_sorted[CHOOSE k \in later : \A m \in later : m <= k]>>

\* line 338: next((s for s in successes_sorted if s.when > f.when), None)
next_success(successes_sorted, f) ==
    LET later == { k \in 1..Len(successes_sorted) :
                     successes_sorted[k].when > f.when }
    IN  IF later = {} THEN <<>>
        ELSE <<successes_sorted[CHOOSE k \in later : \A m \in later : k <= m]>>

\* lines 339-352: the row of one failure, <<>> if it has no later success
mttr_row(successes_sorted, f) ==
    LET ns == next_success(successes_sorted, f)
    IN  IF ns # <<>>
        THEN <<[failedBuildId |-> f.buildId,
                failedAtUtc |-> fmtiso(f.when),
                restoredBuildId |-> ns[1].buildId,
                restoredAtUtc |-> fmtiso(ns[1].when),
                mttrSeconds |-> int_total_seconds(ns[1].when - f.when)]>>
        ELSE <<>>

RECURSIVE mttr_loop(_, _, _)
mttr_loop(successes_sorted, fs, n) ==
    IF n = 0 THEN <<>>
    ELSE mttr_loop(successes_sorted, fs, n - 1) \o mttr_row(successes_sorted, fs[n])

\* lines 335-352
mttr_rows_of(deps, fails) ==
    LET successes_sorted == StableSort(deps, WhenKeys(deps))
        fs == StableSort(fails, WhenKeys(fails))
    IN  mttr_loop(successes_sorted, fs, Len(fs))

\* key=lambda r: r["failedAtUtc"]
FailedAtKeys(rows) == [k \in 1..Len(rows) |-> rows[k].failedAtUtc]

\* key=lambda r: r["deployTimeUtc"]
DeployTimeKeys(rows) == [k \in 1..Len(rows) |-> rows[k].deployTimeUtc]

\* lines 395-402; the percentage in hundredths, as round(cfr_pct, 2) gives it
cfr_row(deps, fails, pct) ==
    [totalDeployments |-> Len(StableSort(deps, WhenKeys(deps))),
     failedChanges |-> Len(fails),
     changeFailureRatePct |-> round_half_even(pct[1] * 100, pct[2])]

\* -------------------------------------------------------- commit resolver
Tfs    == <<"t","f","s">>
Azure  == <<"a","z","u","r","e">>
GitHub == <<"g","i","t","h","u","b">>

RepoTypes == { <<>>,
               <<"T","f","s","G","i","t">>,
               <<"G","i","t","H","u","b">>,
               <<"B","i","t","b","u","c","k","e","t">> }

\* commit instants before and after every finish time, an odd number of
\* ticks away, one of them written with a +01:00 offset
CommitEarly == TicksPerDay - 1 - (TicksPerSec + 1)
CommitLate  == TicksPerDay - 1 + MaxTick + (TicksPerSec + 1)

AuthorDates    == { <<>>, <<CommitEarly + TicksPerHour, TicksPerHour>>, <<CommitLate, 0>> }
CommitterDates == { <<>>, <<CommitEarly, 0>> }

\* what get_commit_time reads of a build; owner_repo stands for what
\* extract_owner_repo(repo) returns (TRUE: an "owner/repo", FALSE: None)
BuildInfos ==
    [sourceVersion : {<<>>, <<"a">>}, rtype : RepoTypes,
     rid : {<<>>, <<"r">>}, owner_repo : BOOLEAN]

\* what the commit request ends in: a response with a status and the two
\* dates of its body, or an exception of requests raised by the transport
Responses ==
    [kind : {"response"}, status : {200, 404},
     author : AuthorDates, committer : CommitterDates]
    \cup [kind : {"ConnectionError", "Timeout"}, status : {0},
          author : {<<>>}, committer : {<<>>}]

Returns(v) == [ret |-> v, exc |-> <<>>]
Raises(e)  == [ret |-> <<>>, exc |-> <<e>>]

\* author date first, committer date as fallback; utc() of it, or None
commit_date(resp) ==
    LET dt == IF resp.author # <<>> THEN resp.author ELSE resp.committer
    IN  IF dt # <<>> THEN utc(dt) ELSE <<>>

\* ADO._get under get_ado_commit: session.get raises the transport's
\* exception, raise_for_status raises HTTPError on a 4xx/5xx status
ado_get(resp) ==
    IF resp.kind # "response" THEN Raises(resp.kind)
    ELSE IF resp.status >= 400 THEN Raises("HTTPError")
    ELSE Returns(resp)

\* lines 157-169: only requests.HTTPError is caught
azure_commit_time(build, resp) ==
    IF build.rid = <<>> THEN Returns(<<>>)
    ELSE LET c == ado_get(resp)
         IN  IF c.exc = <<>> THEN Returns(commit_date(c.ret))
             ELSE IF c.exc[1] = "HTTPError" THEN Returns(<<>>)
             ELSE c

\* lines 171-194: every requests.RequestException is caught
github_commit_time(build, override, resp) ==
    IF ~(override \/ build.owner_repo) THEN Returns(<<>>)
    ELSE IF resp.kind # "response" THEN Returns(<<>>)
    ELSE IF resp.status = 200 THEN Returns(commit_date(resp))
    ELSE Returns(<<>>)

\* lines 149-198
get_commit_time(build, override, resp) ==
    LET rtype == lower(build.rtype)
    IN  IF build.sourceVersion = <<>> THEN Returns(<<>>)
        ELSE IF contains(Tfs, rtype) \/ contains(Azure, rtype)
             THEN azure_commit_time(build, resp)
        ELSE IF contains(GitHub, rtype) \/ override
             THEN github_commit_time(build, override, resp)
        ELSE Returns(<<>>)

\* dep_by_build.get(bid): the last deployment of the build, <<>> if none
dep_by_build(deps, bid) ==
    LET hits == { k \in 1..Len(deps) : deps[k].buildId = bid }
    IN  IF hits = {} THEN <<>>
        ELSE <<deps[CHOOSE k \in hits : \A m \in hits : m <= k]>>

\* lines 321-332
lead_row(bid, ct, dep) ==
    [buildId |-> bid,
     commitTimeUtc |-> fmtiso(ct),
     deployTimeUtc |-> fmtiso(dep.when),
     leadTimeSeconds |-> int_total_seconds(dep.when - ct)]

\* ------------------------------------------------------- main(): actions
Init ==
    /\ pc = "for_builds"
    /\ \E n \in 0..MaxBuilds : builds = [k \in 1..n |-> k]
    /\ i = 1
    /\ recs = <<>>
    /\ deployments = <<>>
    /\ failures = <<>>
    /\ raised = <<>>
    /\ gh_repo_override = FALSE
    /\ daily = <<>>
    /\ cfr_pct = <<0, 1>>
    /\ lead_rows = <<>>
    /\ out_daily = <<>>
    /\ out_lead = <<>>
    /\ out_cfr = <<>>
    /\ out_mttr = <<>>
    /\ srv = <<>>
    /\ params = <<>>
    /\ cont = <<>>
    /\ lb_builds = <<>>
    /\ lb_pc = "idle"
    /\ requests = <<>>

\* line 254, the call returns
GetTimeline ==
    /\ pc = "for_builds"
    /\ i <= Len(builds)
    /\ \E tl \in Timelines : recs' = tl
    /\ pc' = "classify"
    /\ UNCHANGED <<builds, i, deployments, failures, raised, gh_repo_override,
                   daily, cfr_pct, lead_rows, out_daily, out_lead, out_cfr,
                   out_mttr, page_vars>>

\* line 254, the call raises (ADO._get: session.get or raise_for_status);
\* main() has no handler around it
GetTimelineRaises ==
    /\ pc = "for_builds"
    /\ i <= Len(builds)
    /\ \E e \in {"HTTPError", "ConnectionError", "Timeout"} :
          raised' = <<[call |-> "get_timeline", error |-> e, buildId |-> builds[i]]>>
    /\ pc' = "aborted"
    /\ UNCHANGED <<builds, i, recs, deployments, failures, gh_repo_override,
                   daily, cfr_pct, lead_rows, out_daily, out_lead, out_cfr,
                   out_mttr, page_vars>>

\* lines 255-291, the body of the loop after the fetch
Classify ==
    /\ pc = "classify"
    /\ deployments' = deployments \o deployment_of(builds[i], recs)
    /\ failures' = failures \o failure_of(builds[i], recs)
    /\ i' = i + 1
    /\ recs' = <<>>
    /\ pc' = "for_builds"
    /\ UNCHANGED <<builds, raised, gh_repo_override, daily, cfr_pct, lead_rows,
                   out_daily, out_lead, out_cfr, out_mttr, page_vars>>

\* lines 293-308, after the last build; args.github_repo is first read in
\* the loop that follows, and is bound here
Aggregate ==
    /\ pc = "for_builds"
    /\ i > Len(builds)
    /\ daily' = daily_of(deployments)
    /\ cfr_pct' = cfr_of(failures, deployments)
    /\ gh_repo_override' \in BOOLEAN
    /\ i' = 1
    /\ pc' = "for_lead"
    /\ UNCHANGED <<builds, recs, deployments, failures, raised, lead_rows,
                   out_daily, out_lead, out_cfr, out_mttr, page_vars>>

\* lines 309-313: a build without a deployment is skipped
LeadSkip ==
    /\ pc = "for_lead"
    /\ i <= Len(builds)
    /\ dep_by_build(deployments, builds[i]) = <<>>
    /\ i' = i + 1
    /\ UNCHANGED <<pc, builds, recs, deployments, failures, raised,
                   gh_repo_override, daily, cfr_pct, lead_rows,
                   out_daily, out_lead, out_cfr, out_mttr, page_vars>>

\* lines 314-332: get_commit_time returns, the row is appended if it
\* returned a time
LeadTime ==
    /\ pc = "for_lead"
    /\ i <= Len(builds)
    /\ dep_by_build(deployments, builds[i]) # <<>>
    /\ \E b \in BuildInfos, resp \in Responses :
          LET r == get_commit_time(b, gh_repo_override, resp)
              dep == dep_by_build(deployments, builds[i])[1]
          IN  /\ r.exc = <<>>
              /\ lead_rows' = IF r.ret # <<>>
                              THEN Append(lead_rows, lead_row(builds[i], r.ret[1], dep))
                              ELSE lead_rows
    /\ i' = i + 1
    /\ UNCHANGED <<pc, builds, recs, deployments, failures, raised,
                   gh_repo_override, daily, cfr_pct,
                   out_daily, out_lead, out_cfr, out_mttr, page_vars>>

\* lines 314-319: get_commit_time raises; main() has no handler around it
LeadTimeRaises ==
    /\ pc = "for_lead"
    /\ i <= Len(builds)
    /\ dep_by_build(deployments, builds[i]) # <<>>
    /\ \E b \in BuildInfos, resp \in Responses :
          LET r == get_commit_time(b, gh_repo_override, resp)
          IN  /\ r.exc # <<>>
              /\ raised' = <<[call |-> "get_commit_time", error |-> r.exc[1],
                              buildId |-> builds[i]]>>
    /\ pc' = "aborted"
    /\ UNCHANGED <<builds, i, recs, deployments, failures,
                   gh_repo_override, daily, cfr_pct, lead_rows,
                   out_daily, out_lead, out_cfr, out_mttr, page_vars>>

\* lines 334-414: the MTTR rows, then the four files
Report ==
    /\ pc = "for_lead"
    /\ i > Len(builds)
    /\ out_daily' = daily_rows(daily)
    /\ out_lead' = StableSort(lead_rows, DeployTimeKeys(lead_rows))
    /\ out_cfr' = <<cfr_row(deployments, failures, cfr_pct)>>
    /\ out_mttr' = LET mttr_rows == mttr_rows_of(deployments, failures)
                   IN  StableSort(mttr_rows, FailedAtKeys(mttr_rows))
    /\ pc' = "done"
    /\ UNCHANGED <<builds, i, recs, deployments, failures, raised,
                   gh_repo_override, daily, cfr_pct, lead_rows, page_vars>>

Next ==
    \/ GetTimeline
    \/ GetTimelineRaises
    \/ Classify
    \/ Aggregate
    \/ LeadSkip
    \/ LeadTime
    \/ LeadTimeRaises
    \/ Report

Spec == Init /\ [][Next]_vars

\* ------------------------------------------ main(): the phases on their own
\* what the classification loop can leave for one build: a Deployment or
\* none, a FailureEvent or none, each at any finish time (a FailureEvent
\* without a Deployment is left by a swap job that succeeded with no finish
\* time)
Outcomes(bid) ==
    LET Events == {<<>>} \cup { <<[buildId |-> bid, when |-> t]>> : t \in Times }
    IN  { <<d, f>> : d \in Events, f \in Events }

\* the <<deployments, failures>> the loop can leave for builds 1..n
RECURSIVE ClassifiedRuns(_)
ClassifiedRuns(n) ==
    IF n = 0 THEN { << <<>>, <<>> >> }
    ELSE { <<run[1] \o o[1], run[2] \o o[2]>> :
              run \in ClassifiedRuns(n - 1), o \in Outcomes(n) }

\* line 252, one build in the list
InitClassify ==
    /\ pc = "for_builds"
    /\ builds = <<1>>
    /\ i = 1
    /\ recs = <<>>
    /\ deployments = <<>>
    /\ failures = <<>>
    /\ raised = <<>>
    /\ gh_repo_override = FALSE
    /\ daily = <<>>
    /\ cfr_pct = <<0, 1>>
    /\ lead_rows = <<>>
    /\ out_daily = <<>>
    /\ out_lead = <<>>
    /\ out_cfr = <<>>
    /\ out_mttr = <<>>
    /\ srv = <<>>
    /\ params = <<>>
    /\ cont = <<>>
    /\ lb_builds = <<>>
    /\ lb_pc = "idle"
    /\ requests = <<>>

NextClassify == GetTimeline \/ GetTimelineRaises \/ Classify

SpecClassify == InitClassify /\ [][NextClassify]_vars

\* line 292: the classification loop has ended, no build has failed
InitLead ==
    /\ pc = "for_builds"
    /\ \E n \in 0..MaxBuilds :
          /\ builds = [k \in 1..n |-> k]
          /\ i = n + 1
          /\ \E run \in ClassifiedRuns(n) :
                deployments = run[1] /\ failures = run[2] /\ run[2] = <<>>
    /\ recs = <<>>
    /\ raised = <<>>
    /\ gh_repo_override = FALSE
    /\ daily = <<>>
    /\ cfr_pct = <<0, 1>>
    /\ lead_rows = <<>>
    /\ out_daily = <<>>
    /\ out_lead = <<>>
    /\ out_cfr = <<>>
    /\ out_mttr = <<>>
    /\ srv = <<>>
    /\ params = <<>>
    /\ cont = <<>>
    /\ lb_builds = <<>>
    /\ lb_pc = "idle"
    /\ requests = <<>>

NextLead == Aggregate \/ LeadSkip \/ LeadTime \/ LeadTimeRaises \/ Report

SpecLead == InitLead /\ [][NextLead]_vars

\* line 333: the lead-time loop has ended, no commit time was resolved
InitMetrics ==
    /\ pc = "for_lead"
    /\ \E n \in 0..MaxBuilds :
          /\ builds = [k \in 1..n |-> k]
          /\ i = n + 1
          /\ \E run \in ClassifiedRuns(n) :
                /\ deployments = run[1]
                /\ failures = run[2]
                /\ daily = daily_of(run[1])
                /\ cfr_pct = cfr_of(run[2], run[1])
    /\ recs = <<>>
    /\ raised = <<>>
    /\ gh_repo_override \in BOOLEAN
    /\ lead_rows = <<>>
    /\ out_daily = <<>>
    /\ out_lead = <<>>
    /\ out_cfr = <<>>
    /\ out_mttr = <<>>
    /\ srv = <<>>
    /\ params = <<>>
    /\ cont = <<>>
    /\ lb_builds = <<>>
    /\ lb_pc = "idle"
    /\ requests = <<>>

NextMetrics == Report

SpecMetrics == InitMetrics /\ [][NextMetrics]_vars

\* ------------------------------------------------- list_builds: the server
Tokens == { <<k>> : k \in 1..MaxPages }

\* the first c build ids after the first `from`
IdRun(from, c) == [k \in 1..c |-> from + k]

\* the number of builds in the pages before page k
RECURSIVE Offset(_, _)
Offset(size, k) == IF k = 1 THEN 0 ELSE Offset(size, k - 1) + size[k - 1]

\* chains of n pages: the sizes of the pages and the cursors of all but the
\* last are free, the cursors distinct, the builds numbered in page order
Chains(n) ==
    { [k \in 1..n |->
         [value |-> IdRun(Offset(size, k), size[k]),
          continuationToken |-> IF k < n THEN tok[k] ELSE <<>>]] :
      size \in [1..n -> 0..MaxPageSize],
      tok \in { t \in [1..n -> Tokens] : \A a, b \in 1..n : a # b => t[a] # t[b] } }

\* the server's answer to a request: the first page when the request has no
\* continuationToken, else the page after the one that gave the token
respond(pages, token) ==
    IF token = <<>> THEN pages[1]
    ELSE pages[1 + CHOOSE k \in 1..Len(pages) : pages[k].continuationToken = token]

\* lines 83-84: `if cont: params["continuationToken"] = cont`
next_params(old, c) == IF c # <<>> THEN c ELSE old

\* mutant: the loop stops after the first page
loop_breaks_always(c) == TRUE

\* lines 88-89: `if not cont: break`
loop_breaks(c) == c = <<>>

InitPages ==
    /\ pc = "list_builds"
    /\ builds = <<>>
    /\ i = 1
    /\ recs = <<>>
    /\ deployments = <<>>
    /\ failures = <<>>
    /\ raised = <<>>
    /\ gh_repo_override = FALSE
    /\ daily = <<>>
    /\ cfr_pct = <<0, 1>>
    /\ lead_rows = <<>>
    /\ out_daily = <<>>
    /\ out_lead = <<>>
    /\ out_cfr = <<>>
    /\ out_mttr = <<>>
    /\ \E n \in 1..MaxPages : srv \in Chains(n)
    /\ params = <<>>
    /\ cont = <<>>
    /\ lb_builds = <<>>
    /\ lb_pc = "loop"
    /\ requests = <<>>

\* lines 82-89: one iteration of `while True`
FetchPage ==
    /\ lb_pc = "loop"
    /\ LET p == next_params(params, cont)
           j == respond(srv, p)
       IN  /\ params' = p
           /\ requests' = Append(requests, p)
           /\ lb_builds' = lb_builds \o j.value
           /\ cont' = j.continuationToken
           /\ lb_pc' = IF loop_breaks(j.continuationToken) THEN "break" ELSE "loop"
    /\ UNCHANGED <<srv, main_vars>>

\* line 90 and the assignment of line 249
ReturnBuilds ==
    /\ lb_pc = "break"
    /\ builds' = lb_builds
    /\ lb_pc' = "returned"
    /\ pc' = "for_builds"
    /\ UNCHANGED <<i, recs, deployments, failures, raised, gh_repo_override,
                   daily, cfr_pct, lead_rows, out_daily, out_lead, out_cfr,
                   out_mttr, srv, params, cont, lb_builds, requests>>

NextPages == FetchPage \/ ReturnBuilds

\* the loop is sequential code: it takes its next step whenever it has one
SpecPages == InitPages /\ [][NextPages]_vars /\ WF_vars(NextPages)

\* ================================================================ claims
\* datetime.fromisoformat on a string fmtiso wrote
iso_ticks(str) ==
    str[1] * TicksPerDay + str[2] * TicksPerSec + (IF Len(str) = 5 THEN str[4] ELSE 0)

BuildIdsOf(rows) == { rows[k].buildId : k \in 1..Len(rows) }

\* C1: every FailureEvent has a Deployment of the same build; a build whose
\* swap job succeeded without a finish time contributes no FailureEvent.
C1_FailureHasDeployment ==
    BuildIdsOf(failures) \subseteq BuildIdsOf(deployments)

\* C2: a failing timeline fetch does not end the run: the remaining builds
\* are classified and the outputs are produced.
C2_TimelineFailureContinues ==
    raised # <<>> => raised[1].call # "get_timeline"

\* C3: no failure of the Azure-Repos commit lookup (HTTP status, transport
\* error, timeout) ends the run: get_commit_time returns unresolved.
C3_CommitLookupNeverAborts ==
    raised # <<>> => raised[1].call # "get_commit_time"

\* C10: failedChanges never exceeds totalDeployments, the reported rate lies
\* between 0 and 100, and it is 0.0 only when there are no FailureEvents.
C10_FailedWithinTotal ==
    out_cfr # <<>> =>
        /\ out_cfr[1].failedChanges <= out_cfr[1].totalDeployments
        /\ out_cfr[1].changeFailureRatePct \in 0..10000
        /\ (out_cfr[1].changeFailureRatePct = 0 => out_cfr[1].failedChanges = 0)

\* ---- C4
RECURSIVE AllPages(_, _)
AllPages(pages, n) ==
    IF n = 0 THEN <<>> ELSE AllPages(pages, n - 1) \o pages[n].value

C4_Requests ==
    /\ Len(requests) <= Len(srv)
    /\ \A k \in 1..Len(requests) :
          requests[k] = IF k = 1 THEN <<>> ELSE srv[k - 1].continuationToken
    /\ lb_pc \in {"break", "returned"} =>
          /\ Len(requests) = Len(srv)
          /\ lb_builds = AllPages(srv, Len(srv))
    /\ lb_pc = "returned" => builds = AllPages(srv, Len(srv))

\* C4: over a chain of N pages list_builds issues exactly N requests, each
\* after the first carrying the cursor of the previous response, then
\* returns the builds of all N pages in page order.
C4_FollowsCursor == [] C4_Requests /\ <> (lb_pc = "returned")

C4_Witness ==
    /\ lb_pc = "returned"
    /\ Len(srv) >= 3
    /\ Len(requests) = Len(srv)
    /\ \A k \in 1..Len(srv) : srv[k].value # <<>>

\* ---- C8
RECURSIVE SumDeployments(_, _)
SumDeployments(rows, n) ==
    IF n = 0 THEN 0 ELSE SumDeployments(rows, n - 1) + rows[n].deployments

\* C8: the deployments counts of the daily rows sum to totalDeployments of
\* the Change Failure Rate summary; each Deployment is counted in exactly
\* one date group, that of the UTC calendar date of its timestamp.
C8_DailySumIsTotal ==
    pc = "done" =>
        /\ SumDeployments(out_daily, Len(out_daily)) = out_cfr[1].totalDeployments
        /\ out_cfr[1].totalDeployments = Len(deployments)
        /\ \A p, q \in 1..Len(out_daily) : p # q => out_daily[p].date # out_daily[q].date
        /\ \A p \in 1..Len(out_daily) :
              out_daily[p].deployments =
                  Cardinality({ k \in 1..Len(deployments) :
                      deployments[k].when \div TicksPerDay = out_daily[p].date })
        /\ \A k \in 1..Len(deployments) :
              \E p \in 1..Len(out_daily) :
                  out_daily[p].date = deployments[k].when \div TicksPerDay

C8_Witness ==
    /\ pc = "done"
    /\ Len(deployments) >= 2
    /\ \E p \in 1..Len(out_daily) : out_daily[p].deployments >= 2

\* ---- C9
LeadDelta(row) == iso_ticks(row.deployTimeUtc) - iso_ticks(row.commitTimeUtc)

\* C9 as claimed: leadTimeSeconds is deployTime - commitTime rounded to the
\* nearest whole second.
C9_LeadSecondsRounded ==
    \A k \in 1..Len(lead_rows) :
        lead_rows[k].leadTimeSeconds = round_half_even(LeadDelta(lead_rows[k]), TicksPerSec)

\* C9 as amended: leadTimeSeconds is deployTime - commitTime truncated
\* toward zero to whole seconds, for positive and negative differences.
C9_LeadSecondsTruncated ==
    \A k \in 1..Len(lead_rows) :
        LET d == LeadDelta(lead_rows[k])
            secs == lead_rows[k].leadTimeSeconds
        IN  /\ d >= 0 => secs >= 0 /\ secs * TicksPerSec <= d /\ d < (secs + 1) * TicksPerSec
            /\ d < 0 => secs <= 0 /\ (secs - 1) * TicksPerSec < d /\ d <= secs * TicksPerSec

C9_Witness ==
    /\ pc = "done"
    /\ \E k \in 1..Len(out_lead) :
          LeadDelta(out_lead[k]) > 0 /\ LeadDelta(out_lead[k]) % TicksPerSec # 0
    /\ \E k \in 1..Len(out_lead) :
          LeadDelta(out_lead[k]) < 0 /\ LeadDelta(out_lead[k]) % TicksPerSec # 0

\* ---- C5
HasLater(f) == \E m \in 1..Len(deployments) : deployments[m].when > f.when

\* what C5 says of the rows, but for the value of mttrSeconds
C5_Pairs ==
    /\ \A p \in 1..Len(out_mttr) :
          LET row == out_mttr[p]
              failedAt == iso_ticks(row.failedAtUtc)
              restoredAt == iso_ticks(row.restoredAtUtc)
          IN  /\ restoredAt > failedAt
              /\ \E k \in 1..Len(failures) :
                    failures[k] = [buildId |-> row.failedBuildId, when |-> failedAt]
              /\ \E m \in 1..Len(deployments) :
                    deployments[m] = [buildId |-> row.restoredBuildId, when |-> restoredAt]
              /\ ~ \E m \in 1..Len(deployments) :
                    failedAt < deployments[m].when /\ deployments[m].when < restoredAt
    /\ \A k \in 1..Len(failures) :
          Cardinality({ p \in 1..Len(out_mttr) :
                          out_mttr[p].failedBuildId = failures[k].buildId })
            = IF HasLater(failures[k]) THEN 1 ELSE 0
    /\ \A p, q \in 1..Len(out_mttr) :
          p < q => iso_ticks(out_mttr[p].failedAtUtc) <= iso_ticks(out_mttr[q].failedAtUtc)

\* C5 as claimed: ... and mttrSeconds = restoredAt - failedAt.
C5_MttrExact ==
    pc = "done" =>
        /\ C5_Pairs
        /\ \A p \in 1..Len(out_mttr) :
              out_mttr[p].mttrSeconds * TicksPerSec =
                  iso_ticks(out_mttr[p].restoredAtUtc) - iso_ticks(out_mttr[p].failedAtUtc)

\* C5 as amended: the rows are exactly the pairs of a FailureEvent and the
\* earliest strictly later Deployment, ordered by failure time, and
\* mttrSeconds is restoredAt - failedAt truncated to whole seconds.
C5_MttrTruncated ==
    pc = "done" =>
        /\ C5_Pairs
        /\ \A p \in 1..Len(out_mttr) :
              LET d == iso_ticks(out_mttr[p].restoredAtUtc) - iso_ticks(out_mttr[p].failedAtUtc)
                  secs == out_mttr[p].mttrSeconds
              IN  secs * TicksPerSec <= d /\ d < (secs + 1) * TicksPerSec

\* a failure with two later deployments, the nearer one later in the list
C5_Witness ==
    /\ pc = "done"
    /\ \E p \in 1..Len(out_mttr) :
          /\ \E a, b \in 1..Len(deployments) :
                /\ a < b
                /\ deployments[a].when > deployments[b].when
                /\ deployments[b].when = iso_ticks(out_mttr[p].restoredAtUtc)

\* ---- C6, C7: the records a build's timeline holds, read off the timeline
\* the indices of the Job records whose lowercased name contains sub
JobsNamed(sub) ==
    { k \in 1..Len(recs) : recs[k].type = "Job" /\ contains(sub, lower(recs[k].name)) }

IsFirst(k, S) == k \in S /\ \A m \in S : k <= m

\* the first job named sub exists and its result is want, in any case
FirstJobIs(sub, want) ==
    \E k \in 1..Len(recs) : IsFirst(k, JobsNamed(sub)) /\ lower(recs[k].result) = want

\* the finish time of the first job named sub, <<>> if it has none
FirstJobFinish(sub) ==
    LET k == CHOOSE m \in 1..Len(recs) : IsFirst(m, JobsNamed(sub))
    IN  IF recs[k].finishTime = <<>> THEN <<>>
        ELSE <<recs[k].finishTime[1] - recs[k].finishTime[2]>>

C6_Step ==
    IF FirstJobIs(SwapSub, Succeeded) /\ FirstJobFinish(SwapSub) # <<>>
    THEN deployments' =
            Append(deployments, [buildId |-> builds[i], when |-> FirstJobFinish(SwapSub)[1]])
    ELSE deployments' = deployments

\* C6: a build yields a Deployment iff the first Job whose lowercased name
\* contains "swap" exists, has result "succeeded" in any case and has a
\* finish time; the Deployment carries that finish time, and a build yields
\* at most one.
C6_DeploymentIffFirstSwap == [][pc = "classify" => C6_Step]_vars

\* a timeline about to be classified whose first swap job did not succeed
\* and whose later one did
C6_Witness ==
    /\ pc = "classify"
    /\ \E a, b \in JobsNamed(SwapSub) :
          /\ IsFirst(a, JobsNamed(SwapSub))
          /\ a < b
          /\ lower(recs[a].result) # Succeeded
          /\ lower(recs[b].result) = Succeeded
          /\ recs[b].finishTime # <<>>

\* the job the failure is read from: validate when it failed, else rollback
\* when it succeeded
C7_Trigger ==
    IF FirstJobIs(ValidateSub, Failed) THEN <<ValidateSub>>
    ELSE IF FirstJobIs(RollbackSub, Succeeded) THEN <<RollbackSub>>
    ELSE <<>>

C7_Emitted == failures' # failures

C7_StepAsClaimed ==
    deployments' # deployments =>
        /\ C7_Emitted <=> C7_Trigger # <<>>
        /\ C7_Emitted =>
              /\ FirstJobFinish(C7_Trigger[1]) # <<>>
              /\ failures' = Append(failures,
                    [buildId |-> builds[i], when |-> FirstJobFinish(C7_Trigger[1])[1]])

C7_StepAmended ==
    deployments' # deployments =>
        /\ C7_Emitted <=> (C7_Trigger # <<>> /\ FirstJobFinish(C7_Trigger[1]) # <<>>)
        /\ C7_Emitted =>
              failures' = Append(failures,
                    [buildId |-> builds[i], when |-> FirstJobFinish(C7_Trigger[1])[1]])

\* C7 as claimed: for a build that emitted a Deployment, a FailureEvent is
\* emitted iff validate failed, else iff rollback succeeded, with that job's
\* finish time; validate takes precedence; at most one per build.
C7_FailureIffTrigger == [][pc = "classify" => C7_StepAsClaimed]_vars

\* C7 as amended: ... iff the job so selected (validate when it failed, else
\* rollback when it succeeded) also has a finish time.
C7_FailureIffTriggerWithFinish == [][pc = "classify" => C7_StepAmended]_vars

\* a timeline about to be classified in which validate failed and rollback
\* succeeded, at different times, under a swap that deploys
C7_Witness ==
    /\ pc = "classify"
    /\ FirstJobIs(SwapSub, Succeeded) /\ FirstJobFinish(SwapSub) # <<>>
    /\ FirstJobIs(ValidateSub, Failed) /\ FirstJobFinish(ValidateSub) # <<>>
    /\ FirstJobIs(RollbackSub, Succeeded) /\ FirstJobFinish(RollbackSub) # <<>>
    /\ FirstJobFinish(ValidateSub) # FirstJobFinish(RollbackSub)

====
